---- MODULE Spec2Model ----
(***************************************************************************)
(* Model of the streaming pipeline orchestrator of eg-dg-agent:            *)
(* process_file_in_background (src/main.py) wrapped in tenacity's @retry,  *)
(* together with the MongoDB gateway store_component_in_db /               *)
(* get_component_from_db.                                                  *)
(*                                                                         *)
(* Python values are encoded as follows.  None is the string "None", the   *)
(* empty list [] is the string "[]", every other payload is an opaque      *)
(* string.  A decoded JSON object is a record whose fields are its keys.   *)
(* An event text is a sequence of tokens: the fence markers "```json" and  *)
(* "```", a JSON object, or text that is not JSON.  parsed_components is a *)
(* Python list that is only appended to and tested for membership; it is   *)
(* kept as a set.  A collection is the sequence of the documents inserted  *)
(* into it, in insertion order, which is the order find_one scans.         *)
(*                                                                         *)
(* Spec is the program with a database whose writes succeed; SpecFault     *)
(* adds store_component_in_db calls that raise, which is the only way an   *)
(* exception leaves the function and tenacity calls it again.  The events  *)
(* whose text is JSON carry JSON objects.                                  *)
(***************************************************************************)
EXTENDS Integers, Sequences, FiniteSets, TLC

\* ------------------------------------------------------------------ bounds
\* number of events a run pulls from its stream, all attempts together
MaxEvents == 4

\* a loop's store call that raises is one of its first MaxRaise calls
MaxRaise == 1

\* ------------------------------------------------------- program constants
REQUIRED_COMPONENTS ==
    << "component_geometry", "pile_details", "reinforcement_details",
       "material_specs", "seismic_arrestors", "structural_notes",
       "compliance_parameters", "boq" >>

\* the ceiling hard-coded in `validdation_count ==3`
MaxIterations == 3

\* stop_after_attempt(3)
StopAfterAttempt == 3

UnitNames == { REQUIRED_COMPONENTS[i] : i \in 1..Len(REQUIRED_COMPONENTS) }

ExtractionUnits == UnitNames \ {"boq"}

\* ---------------------------------------------------------------- values
NoneVal == "None"

EmptyList == "[]"

\* Python truthiness of a payload value (`... and boq_data`)
Truthy(v) == v \notin {NoneVal, EmptyList}

\* ------------------------------------------------------------------ runs
\* Each upload creates its own session, so a run is (user_id, session_id).
RunIds == {"r1", "r2"}

UserOf(r) == "u1"

SessionOf(r) == IF r = "r1" THEN "s1" ELSE "s2"

\* ---------------------------------------------------------------- events
FenceJson == [kind |-> "fence_json"]

Fence == [kind |-> "fence"]

Junk == [kind |-> "junk"]

Json(obj) == [kind |-> "json", obj |-> obj]

TextEvent(toks) == [has_text |-> TRUE, text |-> toks]

\* an event without content.parts[0].text (e.g. a function-call event)
NoTextEvent == [has_text |-> FALSE, text |-> <<>>]

Plain(obj) == TextEvent(<< Json(obj) >>)

Fenced(obj) == TextEvent(<< FenceJson, Json(obj), Fence >>)

\* The JSON objects the agents' events carry in this model: extraction
\* units with one or two keys and two payloads for the same unit, reports
\* (one of them the empty list), verdicts, payloads that mix the marker keys
\* with other keys, and an object with no known key.
Payloads ==
    { [component_geometry |-> "g1"],
      [component_geometry |-> "g2", pile_details |-> "d1"],
      [boq |-> "b1"],
      [boq |-> "b2"],
      [boq |-> EmptyList],
      [validation |-> "pass"],
      [validation |-> "fail"],
      [validation |-> "pass", boq |-> "b2"],
      [validation |-> "fail", component_geometry |-> "g1"],
      [boq |-> "b1", pile_details |-> "d2"],
      [remark |-> "x"] }

Events ==
    { Plain(p) : p \in Payloads }
      \cup { Fenced([boq |-> "b1"]), Fenced([validation |-> "fail"]),
             TextEvent(<< Fence, Json([boq |-> "b2"]), Fence >>),
             TextEvent(<< Junk >>),
             NoTextEvent }

\* ------------------------------------------------------------ the decoder
DecodeError == [error |-> "exception"]

IsError(x) == "error" \in DOMAIN x

NotFenceJson(tok) == tok.kind # "fence_json"

\* part_text.startswith("```json") -> replace("```json", "").strip()
StripLeading(toks) ==
    IF Len(toks) > 0 /\ toks[1].kind = "fence_json"
    THEN SelectSeq(toks, NotFenceJson)
    ELSE toks

\* the trailing marker left in place
KeepTrailing(toks) == toks

\* part_text.endswith("```") -> part_text[:-3].strip()
StripTrailing(toks) ==
    IF Len(toks) > 0 /\ toks[Len(toks)].kind = "fence"
    THEN SubSeq(toks, 1, Len(toks) - 1)
    ELSE toks

\* json.loads succeeds exactly on a text that is one JSON value
JsonLoads(toks) ==
    IF Len(toks) = 1 /\ toks[1].kind = "json" THEN toks[1].obj ELSE DecodeError

Decode(event) ==
    IF ~event.has_text
    THEN DecodeError
    ELSE JsonLoads(StripTrailing(StripLeading(event.text)))

\* ------------------------------------------------------------ the gateway
Doc(user_id, session_id, component_data, status) ==
    [user_id |-> user_id, session_id |-> session_id,
     data |-> component_data, status |-> status]

\* collection.insert_one(doc)
store_component_in_db(d, collection_name, component_data, user_id, session_id, status) ==
    [d EXCEPT ![collection_name] =
        Append(@, Doc(user_id, session_id, component_data, status))]

\* the query filtering on user_id alone
DocsOfUser(d, collection_name, user_id, session_id) ==
    LET Mine(doc) == doc.user_id = user_id
    IN  SelectSeq(d[collection_name], Mine)

\* the documents of a collection that belong to one run, in insertion order
DocsOf(d, collection_name, user_id, session_id) ==
    LET Mine(doc) == doc.user_id = user_id /\ doc.session_id = session_id
    IN  SelectSeq(d[collection_name], Mine)

\* find_one as it would behave if the newest matching document were returned
get_latest_component_from_db(d, collection_name, user_id, session_id) ==
    LET found == DocsOf(d, collection_name, user_id, session_id)
    IN  IF Len(found) > 0
        THEN [status |-> found[Len(found)].status, data |-> found[Len(found)].data]
        ELSE [status |-> "pending", data |-> EmptyList]

\* the read with the fallbacks of lines 75-76 as its default result
get_component_or_unknown(d, collection_name, user_id, session_id) ==
    LET found == DocsOf(d, collection_name, user_id, session_id)
    IN  IF Len(found) > 0
        THEN [status |-> found[1].status, data |-> found[1].data]
        ELSE [status |-> "unknown", data |-> "{}"]

\* collection.find_one({...}): the first matching document
get_component_from_db(d, collection_name, user_id, session_id) ==
    LET found == DocsOf(d, collection_name, user_id, session_id)
    IN  IF Len(found) > 0
        THEN [status |-> found[1].status, data |-> found[1].data]
        ELSE [status |-> "pending", data |-> EmptyList]

\* ------------------------------------------- process_file_in_background
NoVerdict == [none |-> NoneVal]

\* the locals set at the top of the function
FreshLocals ==
    [parsed_components |-> {},
     boq_data |-> NoneVal,
     validation_result |-> NoVerdict,
     validdation_count |-> 0]

\* validation_result.get("validation") == "pass" and boq_data
Accepts(parsed, boq_data) == parsed.validation = "pass" /\ Truthy(boq_data)

\* the ceiling test off by one: the 2nd verdict already reaches it
CeilingReachedEarly(parsed, count) ==
    "validation" \in DOMAIN parsed /\ count >= MaxIterations - 1

\* "validation" in parsed and validdation_count == 3
CeilingReached(parsed, count) == "validation" \in DOMAIN parsed /\ count = MaxIterations

\* the unit test without the `key not in parsed_components` guard
EligibleAgain(key, parsed, parsed_components) ==
    /\ key \in DOMAIN parsed
    /\ key # "boq"

\* key in parsed and key not in parsed_components and key != "boq"
Eligible(key, parsed, parsed_components) ==
    /\ key \in DOMAIN parsed
    /\ key \notin parsed_components
    /\ key # "boq"

\* the keys the unit loop stores for one payload, in REQUIRED_COMPONENTS order
KeysToStore(parsed, parsed_components) ==
    LET ok(key) == Eligible(key, parsed, parsed_components)
    IN  SelectSeq(REQUIRED_COMPONENTS, ok)

\* the rollback loop skipping "boq" the way the unit loop does
RollbackKeysNoBoq(parsed_components) ==
    LET missing(key) == key \notin parsed_components /\ key # "boq"
    IN  SelectSeq(REQUIRED_COMPONENTS, missing)

\* the keys rollback writes: `if key not in parsed_components`
RollbackKeys(parsed_components) ==
    LET missing(key) == key \notin parsed_components
    IN  SelectSeq(REQUIRED_COMPONENTS, missing)

\* the stores of the unit loop, in order
RECURSIVE StoreUnits(_, _, _, _, _)
StoreUnits(d, keys, parsed, user_id, session_id) ==
    IF keys = <<>>
    THEN d
    ELSE StoreUnits(
            store_component_in_db(d, Head(keys), parsed[Head(keys)],
                                  user_id, session_id, "completed"),
            Tail(keys), parsed, user_id, session_id)

\* the stores of the rollback loop, in order
RECURSIVE StoreFailed(_, _, _, _)
StoreFailed(d, keys, user_id, session_id) ==
    IF keys = <<>>
    THEN d
    ELSE StoreFailed(
            store_component_in_db(d, Head(keys), EmptyList,
                                  user_id, session_id, "failed"),
            Tail(keys), user_id, session_id)

SeqToSet(s) == { s[i] : i \in 1..Len(s) }

\* The keys a loop gets through when its raise-th store call raises
\* (raise = 0: no call raises).
Before(keys, raise) ==
    IF raise = 0 \/ raise > Len(keys) THEN keys ELSE SubSeq(keys, 1, raise - 1)

\* the unit loop appending to parsed_components before it stores
RecordedBeforeStore(keys, raise) ==
    IF raise = 0 \/ raise > Len(keys) THEN keys ELSE SubSeq(keys, 1, raise)

\* the keys the unit loop appends to parsed_components: the append follows
\* the store, so the key whose store raises is not among them
Recorded(keys, raise) == Before(keys, raise)

\* the inner handler that leaves the loop instead of going on
SkipEventAndStop(L, d) == [L |-> L, db |-> d, brk |-> TRUE, calls |-> 0]

\* the text is missing or json.loads raises: the inner `except Exception`
\* prints and the loop goes on with the next event
SkipEvent(L, d) == [L |-> L, db |-> d, brk |-> FALSE, calls |-> 0]

\* the accepting store that also marks every unit still missing as failed
AcceptStoreMarkingMissing(L, d, user_id, session_id) ==
    StoreFailed(store_component_in_db(d, "boq", L.boq_data,
                                      user_id, session_id, "completed"),
                RollbackKeys(L.parsed_components \cup {"boq"}),
                user_id, session_id)

\* store_component_in_db("boq", boq_data, user_id, session_id,
\* status="completed"): the one write of an accepting verdict
AcceptStore(L, d, user_id, session_id) ==
    store_component_in_db(d, "boq", L.boq_data, user_id, session_id, "completed")

\* the accepting branch without its `break`
StoreWithoutBreak(L, d, user_id, session_id) ==
    [L |-> [L EXCEPT !.parsed_components = @ \cup {"boq"}],
     db |-> AcceptStore(L, d, user_id, session_id),
     brk |-> FALSE, calls |-> 1]

\* store_component_in_db("boq", boq_data, ..., "completed");
\* parsed_components.append("boq"); break
StoreAndBreak(L, d, user_id, session_id) ==
    [L |-> [L EXCEPT !.parsed_components = @ \cup {"boq"}],
     db |-> AcceptStore(L, d, user_id, session_id),
     brk |-> TRUE, calls |-> 1]

\* The body of `for event in app_stream` for one event.  `raise` is the
\* index of the store_component_in_db call of this body that raises, 0 if
\* none does.  The result is the locals and the database after the body,
\* `brk` (the loop was left by `break`) and `calls` (the number of store
\* calls the body issues when none raises).
HandleEvent(L, d, event, user_id, session_id, raise) ==
    LET parsed == Decode(event)
    IN
    IF IsError(parsed)
    THEN SkipEvent(L, d)
    ELSE
      LET L1 == IF "boq" \in DOMAIN parsed
                THEN [L EXCEPT !.boq_data = parsed.boq]
                ELSE L
      IN
      IF "validation" \in DOMAIN parsed
      THEN
        LET L2 == [L1 EXCEPT !.validdation_count = @ + 1,
                             !.validation_result = parsed]
            stored == StoreAndBreak(L2, d, user_id, session_id)
            raised == [L |-> L2, db |-> d, brk |-> FALSE, calls |-> 1]
        IN
        IF Accepts(parsed, L2.boq_data)
        THEN IF raise = 1 THEN raised ELSE stored
        ELSE IF CeilingReached(parsed, L2.validdation_count)
        THEN IF raise = 1 THEN raised ELSE stored
        ELSE [L |-> L2, db |-> d, brk |-> FALSE, calls |-> 0]
      ELSE
        LET keys == KeysToStore(parsed, L1.parsed_components)
            done == Before(keys, raise)
        IN  [L |-> [L1 EXCEPT !.parsed_components =
                                  @ \cup SeqToSet(Recorded(keys, raise))],
             db |-> StoreUnits(d, done, parsed, user_id, session_id),
             brk |-> FALSE, calls |-> Len(keys)]

\* The `except Exception` handler of the outer try: the rollback loop.
Rollback(L, d, user_id, session_id, raise) ==
    LET keys == RollbackKeys(L.parsed_components)
    IN  [db |-> StoreFailed(d, Before(keys, raise), user_id, session_id),
         calls |-> Len(keys)]

\* ------------------------------------------------------------------ state
VARIABLES
    db,            \* collection name -> documents, in insertion order
    pc,            \* run -> position of its background task
    attempt,       \* run -> tenacity's attempt number
    locals,        \* run -> locals of the current call
    consumed,      \* run -> events pulled from the stream so far
    file_exists,   \* run -> the uploaded file is still on disk
    last_report,   \* history: run -> payload of the latest Report event
    first_seen,    \* history: run -> unit -> payload of its first occurrence
    repeats,       \* history: run -> units that arrived again once recorded
    last_form      \* history: run -> how the text of its latest event decoded

vars == << db, pc, attempt, locals, consumed, file_exists,
           last_report, first_seen, repeats, last_form >>

NoFirst == [u \in ExtractionUnits |-> NoneVal]

\* a Report event: the payload has "boq" (line 115) and does not enter the
\* verdict branch of line 119
IsReport(parsed) ==
    ~IsError(parsed) /\ "boq" \in DOMAIN parsed /\ "validation" \notin DOMAIN parsed

IsVerdict(parsed) == ~IsError(parsed) /\ "validation" \in DOMAIN parsed

ObserveReport(prev, event) ==
    IF IsReport(Decode(event)) THEN Decode(event).boq ELSE prev

ObserveUnits(prev, event) ==
    LET parsed == Decode(event)
    IN  [u \in ExtractionUnits |->
            IF prev[u] = NoneVal /\ ~IsError(parsed) /\ ~IsVerdict(parsed)
               /\ u \in DOMAIN parsed
            THEN parsed[u]
            ELSE prev[u]]

\* the recorded units that a payload the unit loop sees carries again
ObserveRepeats(prev, L, event) ==
    LET parsed == Decode(event)
    IN  IF IsError(parsed) \/ IsVerdict(parsed)
        THEN prev
        ELSE prev \cup { u \in ExtractionUnits :
                            u \in DOMAIN parsed /\ u \in L.parsed_components }

\* how an event's text decoded: not at all, after a fence marker was
\* stripped, or as it stood
FormOf(event) ==
    IF IsError(Decode(event)) THEN "undecodable"
    ELSE IF Len(event.text) > 1 THEN "fenced"
    ELSE "plain"

Init ==
    /\ db = [c \in UnitNames |-> <<>>]
    /\ pc = [r \in RunIds |-> IF r = "r1" THEN "submitted" ELSE "absent"]
    /\ attempt = [r \in RunIds |-> 0]
    /\ locals = [r \in RunIds |-> FreshLocals]
    /\ consumed = [r \in RunIds |-> 0]
    /\ file_exists = [r \in RunIds |-> (r = "r1")]
    /\ last_report = [r \in RunIds |-> NoneVal]
    /\ first_seen = [r \in RunIds |-> NoFirst]
    /\ repeats = [r \in RunIds |-> {}]
    /\ last_form = [r \in RunIds |-> "none"]

\* a call of the function body starts: locals are fresh, the stream is opened
Enter(r, n) ==
    /\ pc' = [pc EXCEPT ![r] = "streaming"]
    /\ attempt' = [attempt EXCEPT ![r] = n]
    /\ locals' = [locals EXCEPT ![r] = FreshLocals]
    /\ last_report' = [last_report EXCEPT ![r] = NoneVal]
    /\ first_seen' = [first_seen EXCEPT ![r] = NoFirst]
    /\ repeats' = [repeats EXCEPT ![r] = {}]
    /\ last_form' = [last_form EXCEPT ![r] = "none"]
    /\ UNCHANGED << db, consumed, file_exists >>

\* background_tasks runs process_file_in_background: tenacity's first attempt
StartTask(r) ==
    /\ pc[r] = "submitted"
    /\ Enter(r, 1)

\* the `finally` clause: the uploaded file is removed
Finally(r) == file_exists' = [file_exists EXCEPT ![r] = FALSE]

\* one iteration of `for event in app_stream`
Consume(r, event, raise) ==
    LET res == HandleEvent(locals[r], db, event, UserOf(r), SessionOf(r), raise)
    IN  /\ pc[r] = "streaming"
        /\ consumed[r] < MaxEvents
        /\ raise <= res.calls
        /\ locals' = [locals EXCEPT ![r] = res.L]
        /\ db' = res.db
        /\ consumed' = [consumed EXCEPT ![r] = @ + 1]
        /\ last_report' = [last_report EXCEPT ![r] = ObserveReport(@, event)]
        /\ first_seen' = [first_seen EXCEPT ![r] = ObserveUnits(@, event)]
        /\ repeats' = [repeats EXCEPT ![r] = ObserveRepeats(@, locals[r], event)]
        /\ last_form' = [last_form EXCEPT ![r] = FormOf(event)]
        /\ IF res.brk
           THEN pc' = [pc EXCEPT ![r] = "accepted"] /\ Finally(r)
           ELSE UNCHANGED << pc, file_exists >>
        /\ UNCHANGED attempt

\* an event is handled and every store call it makes succeeds
NextEvent(r) == \E event \in Events : Consume(r, event, 0)

\* the stream is exhausted: the loop ends and the function returns
StreamExhausted(r) ==
    /\ pc[r] = "streaming"
    /\ pc' = [pc EXCEPT ![r] = "exhausted"]
    /\ Finally(r)
    /\ UNCHANGED << db, attempt, locals, consumed, last_report, first_seen,
                    repeats, last_form >>

\* stream_query or the stream's next() raises; rollback writes all succeed
StreamRaises(r) ==
    /\ pc[r] = "streaming"
    /\ db' = Rollback(locals[r], db, UserOf(r), SessionOf(r), 0).db
    /\ pc' = [pc EXCEPT ![r] = "rolled_back"]
    /\ Finally(r)
    /\ UNCHANGED << attempt, locals, consumed, last_report, first_seen,
                    repeats, last_form >>

Next ==
    \E r \in RunIds :
        \/ StartTask(r)
        \/ NextEvent(r)
        \/ StreamExhausted(r)
        \/ StreamRaises(r)

Spec == Init /\ [][Next]_vars

\* ------------------------------------------------ store calls that raise
\* an event is handled and one of the store calls it makes raises; the
\* inner `except Exception` swallows it and the loop goes on
NextEventStoreRaises(r) ==
    \E event \in Events : \E raise \in 1..MaxRaise :
        Consume(r, event, raise)

\* the stream raises and a store call of the rollback loop raises too: the
\* exception leaves the function, and tenacity either waits for the next
\* attempt or gives up with RetryError
StreamRaisesRollbackRaises(r) ==
    \E raise \in 1..MaxRaise :
        LET res == Rollback(locals[r], db, UserOf(r), SessionOf(r), raise)
        IN  /\ pc[r] = "streaming"
            /\ raise <= res.calls
            /\ db' = res.db
            /\ pc' = [pc EXCEPT ![r] = IF attempt[r] < StopAfterAttempt
                                       THEN "waiting" ELSE "retry_error"]
            /\ Finally(r)
            /\ UNCHANGED << attempt, locals, consumed, last_report, first_seen,
                    repeats, last_form >>

\* wait_fixed(60) is over: tenacity calls the function again
Retry(r) ==
    /\ pc[r] = "waiting"
    /\ Enter(r, attempt[r] + 1)

NextFault ==
    \E r \in RunIds :
        \/ StartTask(r)
        \/ NextEvent(r)
        \/ StreamExhausted(r)
        \/ StreamRaises(r)
        \/ NextEventStoreRaises(r)
        \/ StreamRaisesRollbackRaises(r)
        \/ Retry(r)

SpecFault == Init /\ [][NextFault]_vars

\* ------------------------------------------------------ concurrent runs
\* Two uploads are being processed at once, each by its own background
\* task.  Their streams carry one unit, one report and the two verdicts.
CoreEvents ==
    { Plain([component_geometry |-> "g1"]),
      Plain([boq |-> "b1"]),
      Plain([validation |-> "pass"]),
      Plain([validation |-> "fail"]) }

NextCoreEvent(r) == \E event \in CoreEvents : Consume(r, event, 0)

InitMulti ==
    /\ db = [c \in UnitNames |-> <<>>]
    /\ pc = [r \in RunIds |-> "submitted"]
    /\ attempt = [r \in RunIds |-> 0]
    /\ locals = [r \in RunIds |-> FreshLocals]
    /\ consumed = [r \in RunIds |-> 0]
    /\ file_exists = [r \in RunIds |-> TRUE]
    /\ last_report = [r \in RunIds |-> NoneVal]
    /\ first_seen = [r \in RunIds |-> NoFirst]
    /\ repeats = [r \in RunIds |-> {}]
    /\ last_form = [r \in RunIds |-> "none"]

NextMulti ==
    \E r \in RunIds :
        \/ StartTask(r)
        \/ NextCoreEvent(r)
        \/ StreamExhausted(r)
        \/ StreamRaises(r)

SpecMulti == InitMulti /\ [][NextMulti]_vars

\* ============================================================ properties
Terminal == {"accepted", "exhausted", "rolled_back", "retry_error"}

\* the documents of one run in one collection, and what the read API returns
RunDocs(d, r, c) == DocsOf(d, c, UserOf(r), SessionOf(r))

Fetch(d, r, c) == get_component_from_db(d, c, UserOf(r), SessionOf(r))

WithStatus(docs, status) ==
    LET has(doc) == doc.status = status
    IN  SelectSeq(docs, has)

CompletedWrites(d, r, c) == Len(WithStatus(RunDocs(d, r, c), "completed"))

HasFailedEmpty(d, r, c) ==
    \E i \in 1..Len(RunDocs(d, r, c)) :
        /\ RunDocs(d, r, c)[i].status = "failed"
        /\ RunDocs(d, r, c)[i].data = EmptyList

\* this step handled a verdict of run r
VerdictStep(r) ==
    locals'[r].validdation_count = locals[r].validdation_count + 1

\* ... and the verdict did not accept: not ("pass" while a report is held)
RejectingVerdictStep(r) ==
    /\ VerdictStep(r)
    /\ ~Accepts(locals'[r].validation_result, locals'[r].boq_data)

\* C1: when the verdicts never accept, verdicts 1 and 2 write nothing for
\* 'boq' and the stream keeps being consumed; verdict 3 writes the 'boq'
\* record with status completed, holding the report held at that moment,
\* and stops the loop; no later verdict force-accepts.
C1_ForceAcceptAtThirdVerdict ==
    [][ \A r \in RunIds :
          RejectingVerdictStep(r) =>
            LET n == locals'[r].validdation_count
                before == RunDocs(db, r, "boq")
                after == RunDocs(db', r, "boq")
            IN  /\ n < MaxIterations =>
                     /\ after = before
                     /\ pc'[r] = "streaming"
                     /\ "boq" \notin locals'[r].parsed_components
                /\ n = MaxIterations =>
                     /\ after = Append(before,
                                  Doc(UserOf(r), SessionOf(r),
                                      locals'[r].boq_data, "completed"))
                     /\ pc'[r] = "accepted"
                /\ n > MaxIterations => after = before
      ]_vars

\* a run that was force-accepted: three verdicts, the last one a "fail",
\* with a report held, and the 'boq' record written
C1_Witness ==
    \E r \in RunIds :
        /\ pc[r] = "accepted"
        /\ locals[r].validdation_count = MaxIterations
        /\ locals[r].validation_result.validation = "fail"
        /\ locals[r].boq_data = "b1"
        /\ Fetch(db, r, "boq") = [status |-> "completed", data |-> "b1"]

\* C2: the number of verdicts counted stays within 0..max_iterations in
\* every reachable state, also when a store call made for a verdict raises.
C2_CountWithinCeiling ==
    \A r \in RunIds : locals[r].validdation_count \in 0..MaxIterations

\* C3 (as stated): over the whole run, all outer attempts included, the
\* store receives exactly one 'boq' write with status completed.
C3_ExactlyOneCompletedBoq ==
    \A r \in RunIds :
        pc[r] \in Terminal => CompletedWrites(db, r, "boq") = 1

\* C3 (amended): a run writes 'boq' as completed at most once, all outer
\* attempts included; it does so exactly when it ends by ACCEPT or
\* FORCE_ACCEPT, and the write is issued while handling a verdict that
\* accepts or is the 3rd one.
C3_AtMostOneCompletedBoq ==
    /\ [](\A r \in RunIds :
            /\ CompletedWrites(db, r, "boq") <= 1
            /\ (pc[r] = "accepted") <=> (CompletedWrites(db, r, "boq") = 1))
    /\ [][ \A r \in RunIds :
             CompletedWrites(db', r, "boq") # CompletedWrites(db, r, "boq") =>
               /\ VerdictStep(r)
               /\ \/ Accepts(locals'[r].validation_result, locals'[r].boq_data)
                  \/ locals'[r].validdation_count = MaxIterations
         ]_vars

\* a run accepted on its second outer attempt, carrying one completed 'boq'
C3_Witness ==
    \E r \in RunIds :
        /\ pc[r] = "accepted"
        /\ attempt[r] = 2
        /\ CompletedWrites(db, r, "boq") = 1

\* C4: the payload written for 'boq' on ACCEPT or FORCE_ACCEPT is the payload
\* of the most recent Report event that arrived before the terminating
\* verdict.
C4_PersistsLatestReport ==
    \A r \in RunIds :
        \A i \in 1..Len(RunDocs(db, r, "boq")) :
            RunDocs(db, r, "boq")[i].status = "completed" =>
                RunDocs(db, r, "boq")[i].data = last_report[r]

C8_RollbackOnlyAfterThirdAttempt ==
    \A r \in RunIds :
        (\E u \in UnitNames : HasFailedEmpty(db, r, u)) =>
            attempt[r] = StopAfterAttempt

\* C9: a run whose stream terminates ends either with the report persisted
\* as completed or with rollback performed, so it never ends leaving the
\* report unit without a record.
C9_EndsAcceptedOrRolledBack ==
    \A r \in RunIds :
        pc[r] \in Terminal =>
            \/ CompletedWrites(db, r, "boq") = 1
            \/ \A u \in UnitNames \ locals[r].parsed_components :
                    HasFailedEmpty(db, r, u)

\* C10: no 'boq' record with status completed and an absent payload is ever
\* written; a run that reaches the 3rd verdict without any report leaves the
\* report unit with status failed.
C10_NoCompletedAbsentReport ==
    \A r \in RunIds :
        /\ \A i \in 1..Len(RunDocs(db, r, "boq")) :
              ~ /\ RunDocs(db, r, "boq")[i].status = "completed"
                /\ RunDocs(db, r, "boq")[i].data = NoneVal
        /\ ( /\ pc[r] \in Terminal
             /\ locals[r].validdation_count >= MaxIterations
             /\ locals[r].boq_data = NoneVal )
           => Fetch(db, r, "boq").status = "failed"

\* C11: the gateway is an upsert keyed by (user_id, session_id, unit name):
\* after two store calls with the same key the store holds exactly one
\* record for the key and the read returns the second call's status and
\* payload.
C11_UpsertByKey ==
    \A r \in RunIds : \A u \in UnitNames :
        LET docs == RunDocs(db, r, u)
        IN  /\ Len(docs) <= 1
            /\ Len(docs) > 0 =>
                 Fetch(db, r, u) = [status |-> docs[Len(docs)].status,
                                    data |-> docs[Len(docs)].data]

\* what concerns run q alone: its task's position and locals, the history
\* kept for it, and what the store holds and returns for its units
OwnState(q) == << pc[q], attempt[q], locals[q], consumed[q], file_exists[q],
                  last_report[q], first_seen[q], repeats[q], last_form[q] >>

Untouched(q) ==
    /\ OwnState(q)' = OwnState(q)
    /\ \A u \in UnitNames :
          /\ Fetch(db', q, u) = Fetch(db, q, u)
          /\ RunDocs(db', q, u) = RunDocs(db, q, u)

\* C12: under every interleaving, a step belongs to one run and leaves the
\* recorded set, held report and verdict count of every other run, and what
\* get_component_from_db returns for the other run's units, unchanged.
C12_RunsAreIsolated ==
    [][ \E r \in RunIds : \A q \in RunIds \ {r} : Untouched(q) ]_vars

\* both runs have stored the same unit and the other run's document lies
\* first in the collection they share
C12_Witness ==
    /\ Len(db["component_geometry"]) = 2
    /\ db["component_geometry"][1].session_id = SessionOf("r2")
    /\ Fetch(db, "r1", "component_geometry").status = "completed"
    /\ Fetch(db, "r1", "boq").status = "pending"
    /\ Fetch(db, "r2", "boq").status = "completed"

\* C13: an event whose payload fails to decode changes neither the recorded
\* set, the held report, the verdict count nor the store, triggers no
\* rollback or retry, and the loop goes on with the next event.
C13_DecodeFailureIsSkipped ==
    [][ \A r \in RunIds :
          (consumed'[r] = consumed[r] + 1 /\ last_form'[r] = "undecodable") =>
             /\ locals'[r] = locals[r]
             /\ db' = db
             /\ pc[r] = "streaming" /\ pc'[r] = "streaming"
             /\ attempt'[r] = attempt[r]
             /\ last_report'[r] = last_report[r]
             /\ first_seen'[r] = first_seen[r]
      ]_vars

\* an undecodable event has just been skipped by a run that had recorded a
\* unit, held a report and counted a verdict
C13_Witness ==
    \E r \in RunIds :
        /\ last_form[r] = "undecodable"
        /\ pc[r] = "streaming"
        /\ locals[r].parsed_components = {"component_geometry"}
        /\ locals[r].boq_data = "b1"
        /\ locals[r].validdation_count = 1

\* a payload wrapped with the leading marker "```json", the trailing marker
\* "```", or both
Wrappings(obj) ==
    { TextEvent(<< FenceJson, Json(obj) >>),
      TextEvent(<< Json(obj), Fence >>),
      Fenced(obj) }

NeverWritten(r, u) ==
    \A i \in 1..Len(db[u]) :
        ~ (db[u][i].user_id = UserOf(r) /\ db[u][i].session_id = SessionOf(r))

\* C15: get_component_from_db for a (user_id, session_id, unit) that no write
\* of that run has targeted returns status 'pending' with data [].
C15_FetchDefault ==
    \A r \in RunIds : \A u \in UnitNames :
        NeverWritten(r, u) =>
            get_component_from_db(db, u, UserOf(r), SessionOf(r))
                = [status |-> "pending", data |-> EmptyList]

\* one run reads a collection that holds another run's document only
C15_Witness ==
    /\ Len(db["component_geometry"]) = 1
    /\ db["component_geometry"][1].session_id = SessionOf("r1")
    /\ pc["r2"] = "streaming"
    /\ Fetch(db, "r2", "component_geometry") = [status |-> "pending", data |-> EmptyList]

\* the event just handled was classified as a Report and changed the run's
\* latest report
ReportStep(r) ==
    /\ consumed'[r] = consumed[r] + 1
    /\ ~VerdictStep(r)
    /\ last_report'[r] # last_report[r]

UnitDocsUnchanged(r) ==
    \A u \in ExtractionUnits : RunDocs(db', r, u) = RunDocs(db, r, u)

\* C16: a payload carrying "validation" neither replaces the held report nor
\* persists an extraction unit, whatever else it carries; a payload carrying
\* "boq" without "validation" only replaces the held report and persists no
\* extraction unit, whatever unit names it carries.
C16_ClassifierPrecedence ==
    [][ \A r \in RunIds :
          /\ VerdictStep(r) =>
                /\ locals'[r].boq_data = locals[r].boq_data
                /\ UnitDocsUnchanged(r)
          /\ ReportStep(r) =>
                /\ UnitDocsUnchanged(r)
                /\ locals'[r].parsed_components = locals[r].parsed_components
      ]_vars

\* C17: a unit name enters parsed_components only in a step whose store of
\* that unit succeeded (a completed document of the unit is appended in the
\* same step), so every recorded unit has a completed document and a unit
\* whose store raised stays unrecorded.
C17_RecordedOnlyAfterStore ==
    /\ [] (\A r \in RunIds : \A u \in locals[r].parsed_components :
              CompletedWrites(db, r, u) >= 1)
    /\ [][ \A r \in RunIds : \A u \in UnitNames :
             (u \notin locals[r].parsed_components
                 /\ u \in locals'[r].parsed_components) =>
                /\ Len(RunDocs(db', r, u)) = Len(RunDocs(db, r, u)) + 1
                /\ RunDocs(db', r, u)[Len(RunDocs(db', r, u))].status = "completed"
         ]_vars

\* a unit arrived, its store raised, it stayed unrecorded, and the rollback
\* wrote it as failed
C17_Witness ==
    \E r \in RunIds :
        /\ pc[r] = "rolled_back"
        /\ attempt[r] = 1
        /\ first_seen[r]["component_geometry"] = "g1"
        /\ "component_geometry" \notin locals[r].parsed_components
        /\ CompletedWrites(db, r, "component_geometry") = 0
        /\ Fetch(db, r, "component_geometry") = [status |-> "failed", data |-> EmptyList]

\* C18: once the accepting (or force-accepting) store of 'boq' has been made,
\* the run consumes no further event: its locals, its event count and its
\* documents stay as they are.
C18_AcceptIsTerminal ==
    [][ \A r \in RunIds :
          CompletedWrites(db, r, "boq") >= 1 =>
             /\ consumed'[r] = consumed[r]
             /\ locals'[r] = locals[r]
             /\ pc[r] = "accepted" /\ pc'[r] = "accepted"
             /\ \A u \in UnitNames : RunDocs(db', r, u) = RunDocs(db, r, u)
      ]_vars

\* a run accepted while its stream still had events to give
C18_Witness ==
    \E r \in RunIds :
        /\ pc[r] = "accepted"
        /\ consumed[r] < MaxEvents
        /\ locals[r].validdation_count = 1
        /\ CompletedWrites(db, r, "boq") = 1
        /\ ~file_exists[r]

\* C19: below the ceiling, a verdict payload (carrying no "boq" of its own)
\* accepts exactly when its verdict is "pass" and a Report was observed
\* earlier in the run, the empty-list report included; a "pass" with no
\* earlier Report persists nothing and the loop goes on.
C19_AcceptIffPassAfterReport ==
    [][ \A r \in RunIds :
          ( /\ VerdictStep(r)
            /\ "boq" \notin DOMAIN locals'[r].validation_result
            /\ locals'[r].validdation_count < MaxIterations ) =>
             LET pass == locals'[r].validation_result.validation = "pass"
                 accepted ==
                    /\ pc'[r] = "accepted"
                    /\ CompletedWrites(db', r, "boq")
                          = CompletedWrites(db, r, "boq") + 1
             IN  /\ accepted <=> (pass /\ last_report[r] # NoneVal)
                 /\ (pass /\ last_report[r] = NoneVal) =>
                        (db' = db /\ pc'[r] = "streaming")
      ]_vars

FailedWrites(d, r, c) == Len(WithStatus(RunDocs(d, r, c), "failed"))

====
